---- MODULE Spec2Model ----
(***************************************************************************)
(* Model of binary-gap.cpp: the count-trailing-zeros variants, the         *)
(* platform-selected ctz / cto, and solution().                            *)
(*                                                                         *)
(* A 32-bit unsigned word is modelled as the set of the positions of its   *)
(* one bits (position 0 is the least significant bit), because TLC's       *)
(* integers are signed 32-bit and cannot hold 0x80000000..0xFFFFFFFF.      *)
(* Arithmetic on words is carried out on their two 16-bit halves, modulo   *)
(* 2^bits.  The build (the branch of the #if chain that defines ctz) is    *)
(* part of the state; a call whose result the build leaves undefined is a  *)
(* choice among the values it may return.                                  *)
(***************************************************************************)
EXTENDS Integers, FiniteSets

CHAR_BIT == 8

\* sizeof(unsigned), sizeof(T)
SizeofUnsigned == 4

\* auto constexpr bits = sizeof(x) * CHAR_BIT
bits == SizeofUnsigned * CHAR_BIT

\* INT_MAX, the largest value of the int parameter N
INT_MAX == 2147483647

Bit == 0 .. (bits - 1)

\* ---------------------------------------------------------------- words

Bt(a, i) == IF i \in a THEN 1 ELSE 0

Pow2(k) == 2 ^ k

\* Arithmetic works on the two halves of a word, each small enough for an int.
Half == bits \div 2

HalfMod == Pow2(Half)

RECURSIVE HalfVal(_, _, _)
HalfVal(a, base, i) ==
    IF i = Half THEN 0 ELSE Bt(a, base + i) * Pow2(i) + HalfVal(a, base, i + 1)

Lo(a) == CHOOSE v \in {HalfVal(av, 0, 0) : av \in {a}} : TRUE

Hi(a) == CHOOSE v \in {HalfVal(av, Half, 0) : av \in {a}} : TRUE

\* the word with high half hi and low half lo, both in 0 .. HalfMod - 1
Join(hi, lo) ==
    {i \in Bit : IF i < Half THEN (lo \div Pow2(i)) % 2 = 1
                 ELSE (hi \div Pow2(i - Half)) % 2 = 1}

\* the word holding the non-negative int v
FromNat(v) == Join(v \div HalfMod, v % HalfMod)

\* the value of a word below 2^31 as an int
ToNat(a) == Hi(a) * HalfMod + Lo(a)

And(a, b) == a \cap b

Not(a) == Bit \ a

\* a >> k and a << k for a count below the width (bits falling off are lost)
Shr(a, k) == {i - k : i \in {j \in a : j >= k}}

Shl(a, k) == {i + k : i \in {j \in a : j + k < bits}}

\* the sum of two words given by their halves, modulo 2^bits
AddHalves(ah, al, bh, bl) ==
    Join((ah + bh + ((al + bl) \div HalfMod)) % HalfMod, (al + bl) % HalfMod)

\* a + b modulo 2^bits (the operands are bound to their values first, so that
\* TLC evaluates each of them once)
Add(a, b) ==
    CHOOSE s \in {AddHalves(ah, al, bh, bl) :
                    ah \in {Hi(a)}, al \in {Lo(a)}, bh \in {Hi(b)}, bl \in {Lo(b)}} : TRUE

\* -a modulo 2^bits (two's complement)
Neg(a) == Add(Not(a), {0})

\* a - b modulo 2^bits
Sub(a, b) == Add(a, Neg(b))

RECURSIVE MulFrom(_, _, _)
MulFrom(a, b, i) ==
    IF i = bits THEN {}
    ELSE IF i \in a THEN Add(Shl(b, i), MulFrom(a, b, i + 1))
    ELSE MulFrom(a, b, i + 1)

\* a * b modulo 2^bits (shift and add over the one bits of a)
Mul(a, b) == MulFrom(a, b, 0)

\* a / b (unsigned), by long division over the halves of a; the divisor is
\* nonzero and below 2^(Half - 1), so that every intermediate value fits an int
\* (the only divisor in the program is 0xff)
Div(a, b) ==
    CHOOSE q \in {Join(ah \div d, ((ah % d) * HalfMod + al) \div d) :
                    ah \in {Hi(a)}, al \in {Lo(a)}, d \in {ToNat(b)}} : TRUE

\* ------------------------------------------------- the portable variants

RECURSIVE ctz_simple_loop(_, _)
ctz_simple_loop(x, bit) ==
    IF bit < bits
    THEN IF And(x, {0}) # {} THEN bit ELSE ctz_simple_loop(Shr(x, 1), bit + 1)
    ELSE bits

ctz_simple(x) == ctz_simple_loop(x, 0)

\* ((~T(0)) / 0xff) * x
broadcast(x) == Mul(Div(Not({}), FromNat(255)), FromNat(x))

b_0x01 == broadcast(1)

b_0x55 == broadcast(85)

b_0x33 == broadcast(51)

b_0x0f == broadcast(15)

popcnt(x) ==
    LET x1 == Sub(x, And(Shr(x, 1), b_0x55))
        x2 == Add(And(x1, b_0x33), And(Shr(x1, 2), b_0x33))
        x3 == And(Add(x2, Shr(x2, 4)), b_0x0f)
    IN  ToNat(Shr(Mul(x3, b_0x01), (SizeofUnsigned - 1) * CHAR_BIT))

ctz_bits(x) == popcnt(Sub(And(x, Neg(x)), {0}))

\* lines 109 to 129: the halving steps, for a nonzero x
ctz_bsearch_steps(x) ==
    LET z16 == And(x, FromNat(65535)) = {}
        n16 == IF z16 THEN 16 ELSE 0
        x16 == IF z16 THEN Shr(x, 16) ELSE x
        z8  == And(x16, FromNat(255)) = {}
        n8  == IF z8 THEN n16 + 8 ELSE n16
        x8  == IF z8 THEN Shr(x16, 8) ELSE x16
        z4  == And(x8, FromNat(15)) = {}
        n4  == IF z4 THEN n8 + 4 ELSE n8
        x4  == IF z4 THEN Shr(x8, 4) ELSE x8
        z2  == And(x4, FromNat(3)) = {}
        n2  == IF z2 THEN n4 + 2 ELSE n4
        x2  == IF z2 THEN Shr(x4, 2) ELSE x4
    IN  IF And(x2, FromNat(1)) = {} THEN n2 + 1 ELSE n2

\* faulty variant of ctz_bsearch: the zero guard left out
ctz_bsearch_unguarded(x) == ctz_bsearch_steps(x)

ctz_bsearch(x) == IF x = {} THEN 32 ELSE ctz_bsearch_steps(x)

debruijn32 == 125613361

\* index32[i] of the source is index32[i + 1] here
index32 ==
    << 0,  1,  28, 2,  29, 14, 24, 3, 30, 22, 20, 15, 25, 17, 4,  8,
       31, 27, 13, 23, 21, 19, 16, 7, 26, 12, 18, 6,  11, 5,  10, 9 >>

ctz_debruijn(x) ==
    IF x = {} THEN 32
    ELSE index32[ToNat(And(Shr(Mul(And(x, Neg(x)), FromNat(debruijn32)), 27),
                           FromNat(31))) + 1]

\* ------------------------------------------------ the platform primitives

LowestSet(x) == CHOOSE i \in x : \A j \in x : i <= j

HighestSet(x) == CHOOSE i \in x : \A j \in x : j <= i

\* __builtin_ctz: the number of trailing 0-bits of x; the result is undefined
\* for 0, so any bit count may come back
builtin_ctz(x) == IF x = {} THEN 0 .. bits ELSE {LowestSet(x)}

\* _BitScanReverse: the index of the most significant set bit of a nonzero mask
BitScanReverse(x) == HighestSet(x)

\* ffs: one plus the index of the least significant set bit, 0 for 0
ffs(x) == IF x = {} THEN 0 ELSE LowestSet(x) + 1

\* ------------------------------------------- ctz as each build selects it
\* Each realization gives the set of values the call may return.

ctz_gnuc(x) == builtin_ctz(x)

ctz_msc(x) == IF x = {} THEN {32} ELSE {BitScanReverse(x)}

\* faulty variant of ctz_strings: the one-based result of ffs used as it is
ctz_strings_onebased(x) == IF x = {} THEN {32} ELSE {ffs(x)}

ctz_strings(x) == IF x = {} THEN {32} ELSE {ffs(x) - 1}

ctz_else(x) == {ctz_debruijn(x)}

\* the branches of the #if chain
Builds == {"__GNUC__", "_MSC_VER", "strings.h", "else"}

\* ---------------------------------------------------------------- state
\* build     the branch of the #if chain the program was compiled with
\* pc        the line solution() is at ("idle" while solution is not running)
\* N         the argument of the running call of solution
\* n, max, tz  the locals of solution
\* result    <<v>> once solution has returned v, <<>> before
\* call      1 for a first call of solution, 2 for a following call with the
\*           argument of the first multiplied by a power of two
\* first     the result of the first call, kept by the caller
\* zeroArg   history: ctz has been invoked with argument 0 in this call
\* ops       history: the bit operations (ctz calls, shifts) of this call so far
\* sh        history: the last shift, <<count, bits shifted out>>
\* iters     history: the loop iterations completed in this call
\* shifted   history: the bit positions shifted out in this call
\* w         the word the ctz functions are applied to
\* ret       the value each ctz function returned for w, by function name
VARIABLES build, pc, N, n, max, tz, result, call, first,
          zeroArg, ops, sh, iters, shifted, w, ret

vars == <<build, pc, N, n, max, tz, result, call, first,
          zeroArg, ops, sh, iters, shifted, w, ret>>

solutionVars == <<pc, N, n, max, tz, result, call, first,
                  zeroArg, ops, sh, iters, shifted>>

ctz(v) ==
    CASE build = "__GNUC__"  -> ctz_gnuc(v)
      [] build = "_MSC_VER"  -> ctz_msc(v)
      [] build = "strings.h" -> ctz_strings(v)
      [] OTHER               -> ctz_else(v)

\* faulty variant of cto: the complement left out
cto_uncomplemented(v) == ctz(v)

\* count trailing one bits
cto(v) == ctz(Not(v))

\* ---------------------------------------------------------------- bounds

\* the width of the bit patterns the inputs are built from
PatBits == 3

\* how far apart the two patterns of an input are placed, beyond PatBits
MaxGap == 10

\* the largest number of zeros the following call appends to its argument
MaxK == 3

PatSet == 0 .. (Pow2(PatBits) - 1)

\* -------------------------------------------- the ctz functions under test

\* words with a short pattern at every position, and their complements
CtzInputs ==
    LET P == {Shl(FromNat(p), s) : p \in PatSet, s \in Bit}
    IN  P \cup {Not(a) : a \in P}

CtzNames == <<"ctz_simple", "ctz_bits", "ctz_bsearch", "ctz_debruijn", "ctz", "cto">>

Called(k) == {CtzNames[i] : i \in 1 .. k}

Record(name, v) == ret' = [f \in DOMAIN ret \cup {name} |-> IF f = name THEN v ELSE ret[f]]

Call_ctz_simple ==
    /\ DOMAIN ret = Called(0)
    /\ Record("ctz_simple", ctz_simple(w))
    /\ UNCHANGED <<build, w, solutionVars>>

Call_ctz_bits ==
    /\ DOMAIN ret = Called(1)
    /\ Record("ctz_bits", ctz_bits(w))
    /\ UNCHANGED <<build, w, solutionVars>>

Call_ctz_bsearch ==
    /\ DOMAIN ret = Called(2)
    /\ Record("ctz_bsearch", ctz_bsearch(w))
    /\ UNCHANGED <<build, w, solutionVars>>

Call_ctz_debruijn ==
    /\ DOMAIN ret = Called(3)
    /\ Record("ctz_debruijn", ctz_debruijn(w))
    /\ UNCHANGED <<build, w, solutionVars>>

Call_ctz ==
    /\ DOMAIN ret = Called(4)
    /\ \E r \in ctz(w) : Record("ctz", r)
    /\ UNCHANGED <<build, w, solutionVars>>

Call_cto ==
    /\ DOMAIN ret = Called(5)
    /\ \E r \in cto(w) : Record("cto", r)
    /\ UNCHANGED <<build, w, solutionVars>>

Idle ==
    /\ pc = "idle" /\ N = 0 /\ n = {} /\ max = 0 /\ tz = 0 /\ result = <<>>
    /\ call = 1 /\ first = <<>>
    /\ zeroArg = FALSE /\ ops = 0 /\ sh = <<0, {}>> /\ iters = 0 /\ shifted = 0

InitCtz ==
    /\ build \in Builds
    /\ w \in CtzInputs
    /\ ret = <<>>
    /\ Idle

NextCtz ==
    \/ Call_ctz_simple
    \/ Call_ctz_bits
    \/ Call_ctz_bsearch
    \/ Call_ctz_debruijn
    \/ Call_ctz
    \/ Call_cto

SpecCtz == InitCtz /\ [][NextCtz]_vars

\* ------------------------------------------------------------- solution

\* faulty variant of the guard: zero let through (N < 0)
OutOfRange_negative(v) == v < 0

\* if (N < 1)
OutOfRange(v) == v < 1

\* unsigned(N): N modulo 2^bits, as a word
unsigned(v) == IF v >= 0 THEN FromNat(v) ELSE Not(FromNat(-(v + 1)))

\* a >> k as the >>= of the source leaves it: the shifted word for a count
\* below the width; a count of the width or more is undefined, and the build
\* may use the count modulo the width or shift everything out
ShiftRight(a, k) == IF k < bits THEN {Shr(a, k)} ELSE {Shr(a, k % bits), {}}

\* the bits a shift by k moves out of a
ShiftedOut(a, k) == {i \in a : i < k}

\* faulty variant: line 217 left out, nothing shifted
InitialZeros_skipped(v) == {0}

\* the count line 217 shifts out
InitialZeros(v) == ctz(v)

\* faulty variant of the loop test: one an unsigned n always passes (n >= 0)
LoopCond_always(v) == TRUE

\* while (n)
LoopCond(v) == v # {}

Max(a, b) == IF a < b THEN b ELSE a

\* the history of one more ctz call with argument v
CountCtz(v) ==
    /\ zeroArg' = (zeroArg \/ v = {})
    /\ ops' = ops + 1

\* n >>= k, with its history
ShiftBy(k) ==
    /\ n' \in ShiftRight(n, k)
    /\ sh' = <<k, ShiftedOut(n, k)>>
    /\ shifted' = shifted + k

\* lines 211 to 215
Enter ==
    /\ pc = "L211"
    /\ IF OutOfRange(N)
       THEN pc' = "thrown" /\ n' = n
       ELSE pc' = "L217" /\ n' = unsigned(N)
    /\ UNCHANGED <<build, N, max, tz, result, call, first,
                   zeroArg, ops, sh, iters, shifted, w, ret>>

\* line 217: n >>= ctz(n)
StripZeros ==
    /\ pc = "L217"
    /\ \E r \in InitialZeros(n) : ShiftBy(r)
    /\ zeroArg' = (zeroArg \/ n = {})
    /\ ops' = ops + 2
    /\ pc' = "L218"
    /\ UNCHANGED <<build, N, max, tz, result, call, first, iters, w, ret>>

\* lines 218 and 220: n >>= cto(n); int max = 0
StripOnes ==
    /\ pc = "L218"
    /\ \E r \in cto(n) : ShiftBy(r)
    /\ zeroArg' = (zeroArg \/ Not(n) = {})
    /\ ops' = ops + 2
    /\ max' = 0
    /\ pc' = "L222"
    /\ UNCHANGED <<build, N, tz, result, call, first, iters, w, ret>>

\* lines 222 to 224: the loop is entered; tz = ctz(n); max = std::max(tz, max)
Measure ==
    /\ pc = "L222"
    /\ LoopCond(n)
    /\ \E r \in ctz(n) : tz' = r /\ max' = Max(r, max)
    /\ CountCtz(n)
    /\ pc' = "L225"
    /\ UNCHANGED <<build, N, n, result, call, first, sh, iters, shifted, w, ret>>

\* line 225: n >>= tz
ShiftGap ==
    /\ pc = "L225"
    /\ ShiftBy(tz)
    /\ ops' = ops + 1
    /\ pc' = "L226"
    /\ UNCHANGED <<build, N, max, tz, result, call, first, zeroArg, iters, w, ret>>

\* line 226: n >>= cto(n), and back to the loop test
ShiftOnes ==
    /\ pc = "L226"
    /\ \E r \in cto(n) : ShiftBy(r)
    /\ zeroArg' = (zeroArg \/ Not(n) = {})
    /\ ops' = ops + 2
    /\ iters' = iters + 1
    /\ pc' = "L222"
    /\ UNCHANGED <<build, N, max, tz, result, call, first, w, ret>>

\* lines 222 and 229: the loop is left; return max
Return ==
    /\ pc = "L222"
    /\ ~LoopCond(n)
    /\ result' = <<max>>
    /\ pc' = "done"
    /\ UNCHANGED <<build, N, n, max, tz, call, first,
                   zeroArg, ops, sh, iters, shifted, w, ret>>

\* ------------------------------------------------------------ the caller

\* the arguments main passes to solution (lines 254 to 316)
TestInputs ==
    { 9, 529, 15, 32, 1041, 2147483647,
      5, 17, 33, 65, 129, 257, 513, 1025, 2049,
      10, 18, 34, 66, 130, 258, 514, 1026, 2050, 4098,
      1431655765, 715827882, 161061273, 102, 6710886,
      4099, 4101, 4105, 4113, 4129, 4161, 4225, 4353, 4609, 5121, 6145,
      1073741823, 536870911,
      2147483645, 2147483643, 2147483639, 2147483631, 2147483615,
      2147483583, 2147483519, 2147483641 }

\* two short bit patterns, the upper one placed s bits above the lower one
Patterns ==
    {p * Pow2(s) + q : p \in PatSet, q \in PatSet, s \in PatBits .. (PatBits + MaxGap)}

ValidInputs == (Patterns \cup TestInputs \cup {20}) \ {0}

InvalidInputs == {0, -INT_MAX - 1} \cup {-v : v \in TestInputs}

Inputs == ValidInputs \cup InvalidInputs

\* the powers of two a valid argument v can be multiplied by: up to MaxK more
\* trailing zeros, or as many as bring its highest bit to the top of an int
Appended(v) ==
    LET room == (bits - 2) - HighestSet(FromNat(v))
    IN  {k \in 1 .. room : k <= MaxK \/ k = room}

\* main calls solution again, with 2^k times the argument of the first call
NextCall ==
    /\ pc = "done"
    /\ call = 1
    /\ \E k \in Appended(N) : N' = N * Pow2(k)
    /\ first' = result
    /\ call' = 2
    /\ pc' = "L211"
    /\ n' = {} /\ max' = 0 /\ tz' = 0 /\ result' = <<>>
    /\ zeroArg' = FALSE /\ ops' = 0 /\ sh' = <<0, {}>> /\ iters' = 0 /\ shifted' = 0
    /\ UNCHANGED <<build, w, ret>>

Init ==
    /\ build \in Builds
    /\ N \in Inputs
    /\ pc = "L211"
    /\ n = {} /\ max = 0 /\ tz = 0 /\ result = <<>>
    /\ call = 1 /\ first = <<>>
    /\ zeroArg = FALSE /\ ops = 0 /\ sh = <<0, {}>> /\ iters = 0 /\ shifted = 0
    /\ w = {} /\ ret = <<>>

Next ==
    \/ Enter
    \/ StripZeros
    \/ StripOnes
    \/ Measure
    \/ ShiftGap
    \/ ShiftOnes
    \/ Return
    \/ NextCall

Spec == Init /\ [][Next]_vars

\* ------------------------------------------------------ reference notions

SetMax(S) == CHOOSE m \in S : \A v \in S : v <= m

\* the length of the longest run of zero bits of a that has a one bit right
\* below it and a one bit right above it; 0 when there is no such run
BinaryGap(a) ==
    LET Above(i) == {h \in a : h > i /\ \A k \in (i + 1) .. (h - 1) : k \notin a}
    IN  SetMax({0} \cup UNION {{j - i - 1 : j \in Above(i)} : i \in a})

\* the number of consecutive zero bits of a from bit 0 up to its first one bit
TrailingZeroCount(a) == Cardinality({i \in Bit : \A j \in 0 .. i : j \notin a})

AllOnes == Not({})

\* a < b as unsigned values: decided at the highest bit where they differ
Less(a, b) ==
    \E i \in b \ a : \A j \in (i + 1) .. (bits - 1) : (j \in a) <=> (j \in b)

\* the bits 0 .. k-1
LowBits(k) == 0 .. (k - 1)

InLoop == pc \in {"L222", "L225", "L226"}

\* ----------------------------------------------------------------- claims

\* C1: for every N in [1, INT_MAX], solution(N) returns the length of the
\* longest run of zero bits enclosed by a one bit on each side (0 if none).
SolutionReturnsLongestGap ==
    pc = "done" => result = <<BinaryGap(unsigned(N))>>

\* C1 on the builds other than _MSC_VER, where it holds
SolutionReturnsLongestGapUnlessMSC ==
    (pc = "done" /\ build # "_MSC_VER") => result = <<BinaryGap(unsigned(N))>>

\* C2: for every N < 1, solution fails with the out_of_range error before any
\* bit operation and produces no return value.
InvalidArgumentThrows ==
    /\ (N < 1 /\ pc \notin {"L211", "idle"}) =>
           (pc = "thrown" /\ result = <<>> /\ ops = 0 /\ ~zeroArg /\ n = {})
    /\ pc = "thrown" => N < 1

InvalidArgumentThrown == pc = "thrown" /\ N < 0

\* C3: the selected ctz returns 32 for 0, and cto returns 32 for 0xFFFFFFFF.
SentinelProperty ==
    /\ ("ctz" \in DOMAIN ret /\ w = {}) => ret["ctz"] = 32
    /\ ("cto" \in DOMAIN ret /\ w = AllOnes) => ret["cto"] = 32

\* C4: ctz_simple, ctz_bits, ctz_bsearch and ctz_debruijn return the same
\* value for every word: its number of trailing zero bits, 32 for 0.
PortableVariantsAgree ==
    /\ \A f \in DOMAIN ret \cap Called(4) : ret[f] = TrailingZeroCount(w)
    /\ \A f, g \in DOMAIN ret \cap Called(4) : ret[f] = ret[g]

PortableVariantsCalledOnZero == Called(4) \subseteq DOMAIN ret /\ w = {}

\* C5: on every build the selected ctz returns, for a nonzero word, the index
\* of its lowest set bit, as ctz_simple does.
PlatformCtzMatchesSimple ==
    ("ctz" \in DOMAIN ret /\ w # {}) =>
        (ret["ctz"] = ret["ctz_simple"] /\ ret["ctz"] = TrailingZeroCount(w))

\* C6: solution(N * 2^k) = solution(N): appended trailing zeros never change
\* the result.
TrailingZerosIrrelevant ==
    (call = 2 /\ pc = "done") => result = first

TrailingZerosAppendedToGap == call = 2 /\ pc = "done" /\ first = <<4>>

\* C7 as stated: on first reaching the while loop the lowest bit of n is a 1,
\* or n is 0.
LowestBitSetAtLoopEntry ==
    (pc = "L222" /\ iters = 0) => (0 \in n \/ n = {})

\* C7 as amended: on first reaching the while loop the lowest bit of n is a 0
\* (the trailing ones have been shifted out; n may be 0).
LowestBitClearAtLoopEntry ==
    (pc = "L222" /\ iters = 0) => 0 \notin n

NonzeroAtLoopEntry == pc = "L222" /\ iters = 0 /\ n # {} /\ 0 \notin n

\* C8: every zero run measured in the loop is enclosed by ones: tz >= 1, the
\* bits shifted out just before were ones, the run is followed by a one bit
\* (so n is nonzero with lowest bit 1 once the run is shifted out), and max
\* never exceeds the longest enclosed run of N.
MeasuredRunsEnclosed ==
    /\ pc = "L225" =>
          /\ tz >= 1
          /\ sh[1] >= 1 /\ sh[2] = LowBits(sh[1])
          /\ n \cap LowBits(tz) = {} /\ tz \in n
    /\ pc = "L226" =>
          /\ n # {} /\ 0 \in n
          /\ sh = <<tz, {}>>
    /\ InLoop => max <= BinaryGap(unsigned(N))

SecondRunMeasured == pc = "L226" /\ iters >= 1 /\ tz >= 2 /\ max > tz

\* C9: the loop terminates: each iteration shifts out at least one zero bit and
\* at least one one bit and so strictly decreases n, max never decreases, at
\* most 32 bit positions are shifted out in a call, and the loop runs at most
\* 15 times.
LoopTerminates ==
    [][/\ pc = "L225" => (Less(n', n) /\ sh'[1] >= 1 /\ sh'[2] = {})
       /\ pc = "L226" => (Less(n', n) /\ sh'[1] >= 1 /\ sh'[2] = LowBits(sh'[1]))
       /\ InLoop => max' >= max
       /\ iters' <= 15
       /\ shifted' <= bits]_vars

\* C9 on the builds other than _MSC_VER, where it holds
LoopTerminatesUnlessMSC ==
    [][build # "_MSC_VER" =>
          /\ pc = "L225" => (Less(n', n) /\ sh'[1] >= 1 /\ sh'[2] = {})
          /\ pc = "L226" => (Less(n', n) /\ sh'[1] >= 1 /\ sh'[2] = LowBits(sh'[1]))
          /\ InLoop => max' >= max
          /\ iters' <= 15
          /\ shifted' <= bits]_vars

\* the bound of 15 iterations is reached (0x55555555)
FifteenIterations == pc = "done" /\ iters = 15

\* C10: during solution(N) for a valid N, ctz is never invoked with 0 (neither
\* directly nor through cto), and every shift count lies in [0, 31].
CtzNeverCalledWithZero ==
    /\ ~zeroArg
    /\ sh[1] \in 0 .. (bits - 1)

CtzCalledThroughout ==
    pc = "done" /\ build = "__GNUC__" /\ iters >= 2 /\ ops >= 10 /\ ~zeroArg

====
